---- MODULE Spec2Model ----
(***************************************************************************)
(* ModernCounter (src/src/index.js): the counter engine (class             *)
(* ModernCounter) and the digit-roll engine (class VerticalCounter) as     *)
(* state machines.                                                         *)
(*                                                                         *)
(* Numbers.  The counter's value is a fraction whose denominator is the    *)
(* instance's `loops`: the variables value, text and the hook arguments    *)
(* hold numerators in units of 1/loops, so `this.value = from` is          *)
(* value = from * loops and `increment = (to - from) / loops` is the       *)
(* numerator to - from.  The arithmetic is exact; the rounding of IEEE     *)
(* doubles is not modelled.                                                *)
(*                                                                         *)
(* Hooks.  options.onUpdate and options.onComplete are taken to be         *)
(* functions that only observe; each invocation is recorded in the hook    *)
(* log (updates, completes, lastHook and the arguments), which start()     *)
(* clears, so the log always describes the current run.                    *)
(***************************************************************************)
EXTENDS Integers, Sequences, FiniteSets, TLC

\* ---------------------------------------------------------------- bounds

\* Timer ids the browser hands out to setInterval in one behaviour.
MaxTimerId == 3
\* Frames the tweening backend renders before the final frame of one tween.
MaxFrames == 2
\* start() calls on one VerticalCounter in one behaviour.
MaxVStarts == 2

\* The scroll events dispatched to the window.
MaxScrolls == 3

\* ------------------------------------------------------------- constants

\* start(): the transition of strip `index` is delayed by index * 0.1 s; in
\* milliseconds per index.
StaggerMs == 100

\* ---------------------------------------------------------- configuration

\* The merged options of an instance (DEFAULTS, data attributes, options).
Configs ==
  { [from |-> 0,  to |-> 1000, speed |-> 2000, refreshInterval |-> 100],
    [from |-> 0,  to |-> 10,   speed |-> 300,  refreshInterval |-> 100],
    [from |-> 10, to |-> 3,    speed |-> 250,  refreshInterval |-> 100],
    [from |-> 2,  to |-> 7,    speed |-> 100,  refreshInterval |-> 100],
    [from |-> 5,  to |-> 5,    speed |-> 400,  refreshInterval |-> 100] }

\* Math.ceil(a / b) for a >= 0 and b > 0; 0 for a = 0.
Ceil(a, b) == (a + b - 1) \div b

\* init(): this.loops = Math.ceil(speed / refreshInterval).
LoopsOf(o) == Ceil(o.speed, o.refreshInterval)

\* The numbers of an instance with this.loops = L are kept in units of
\* 1/L, which holds every value the ticks produce exactly; in units of 1
\* when L is 0.
Den(L) == IF L = 0 THEN 1 ELSE L

\* The values of a Number that are not finite, as three integers out of the
\* reach of the finite ones.
Infinity == 2 ^ 30
NegInfinity == 0 - Infinity
NaN == Infinity + 1

IsFinite(x) == x \notin {Infinity, NegInfinity, NaN}

\* x / 0.
DivByZero(x) == IF x > 0 THEN Infinity ELSE IF x < 0 THEN NegInfinity ELSE NaN

\* a + b.
Add(a, b) ==
  IF a = NaN \/ b = NaN THEN NaN
  ELSE IF ~IsFinite(a) THEN (IF ~IsFinite(b) /\ a # b THEN NaN ELSE a)
  ELSE IF ~IsFinite(b) THEN b
  ELSE a + b

\* A variant of IncrementOf that forgets to subtract `from`.
IncrementOfNoFrom(o, L) == o.to

\* init(): this.increment = (to - from) / loops, in units of 1/L.
IncrementOf(o, L) == IF L = 0 THEN DivByZero(o.to - o.from) ELSE o.to - o.from

\* The number x in units of 1/L.
Num(x, L) == x * Den(L)

\* Number.prototype.toFixed(0) of n / L: the nearest integer, a tie going
\* away from zero, and "Infinity", "-Infinity" or "NaN" for those.
\* DEFAULTS.formatter with decimals = 0.
ToFixed(n, L) ==
  IF ~IsFinite(n) THEN n
  ELSE IF n >= 0 THEN (2 * n + Den(L)) \div (2 * Den(L))
  ELSE 0 - ((2 * (0 - n) + Den(L)) \div (2 * Den(L)))

\* this.interval: never assigned by the constructor (undefined), a timer id
\* returned by setInterval, or null.
Undefined == [kind |-> "undefined", id |-> 0]
Null      == [kind |-> "null", id |-> 0]
Handle(i) == [kind |-> "id", id |-> i]

\* if (this.interval): a timer id is truthy, undefined and null are not.
Truthy(h) == h.kind = "id"

VARIABLES
  options,      \* this.options
  gsap,         \* typeof gsap !== 'undefined'
  value,        \* this.value
  loops,        \* this.loops
  loopCount,    \* this.loopCount
  increment,    \* this.increment
  interval,     \* this.interval
  text,         \* element.textContent, as the integer it shows
  timers,       \* ids of the repeating timers that are active (update)
  nextTimerId,  \* the id the next setInterval returns
  tweens,       \* active tweens of the backend that target this
  frames,       \* frames rendered by the current tween
  updates,      \* hook log: onUpdate invocations in the current run
  completes,    \* hook log: onComplete invocations in the current run
  lastHook,     \* hook log: the hook invoked last in the current run
  updateArg,    \* hook log: the argument of the last onUpdate
  completeArg,  \* hook log: the argument of the last onComplete
  completeValue,\* hook log: this.value when onComplete was last invoked
  startCount,   \* loopCount when the current run's start() armed its driver
  startedBy,    \* the public method that started the current run
  lastOp,       \* the operation performed last
  prevOp,       \* the operation performed before it
  branch,       \* the method the last toggle() called
  pre           \* the instance as it was when the last operation began

cvars == <<options, gsap, value, loops, loopCount, increment, interval, text,
           timers, nextTimerId, tweens, frames, updates, completes, lastHook,
           updateArg, completeArg, completeValue, startCount, startedBy,
           lastOp, prevOp, branch, pre>>

\* The digit-roll engine (class VerticalCounter).
VARIABLES
  vTo,            \* options.to, as its characters
  digitElements,  \* this.digitElements: the `value` of each entry
  vBuilt,         \* buildCounter() has run: this.digitElements is defined
  transform,      \* per strip: y of style.transform = translateY(y em)
  transition,     \* per strip: style.transition, "none" or "transform"
  delay,          \* per strip: the delay of style.transition, in ms
  rolling,        \* per strip: a transition of transform is running
  listeners,      \* per strip: the start() calls whose transitionEndHandler
                  \* is registered on it
  completeCount,  \* per start() call: its closure's completeCount
  vRuns,          \* start() calls so far; the last one is number vRuns
  priming,        \* pending 50 ms timeouts <<call, strip>>, oldest first
  autoStart,      \* the constructor's 100 ms timeout is pending
  vCompleted,     \* options.onComplete invocations so far
  vSince,         \* options.onComplete invocations since the last start()
  vErrors,        \* console.error calls so far
  vFault,         \* a call on the instance has thrown
  vResetCalled,   \* reset() has been called
  vLastOp,        \* the operation performed last
  vCol,           \* the strip the last timeout or transitionend was about
  vPre            \* what the last operation found when it began

vvars == <<vTo, digitElements, vBuilt, transform, transition, delay, rolling,
           listeners, completeCount, vRuns, priming, autoStart, vCompleted,
           vSince, vErrors, vFault, vResetCalled, vLastOp, vCol, vPre>>

\* The activation trigger of the instance and the page it watches.
VARIABLES
  engine,         \* the class of the instance: "counter" or "vertical"
  ctor,           \* how it was made: "new" or "initCounter"
  scrollTrigger,  \* options.scrollTrigger: whether it is set, and its start
  plugin,         \* ScrollTrigger is loaded
  pluginArmed,    \* ScrollTrigger.create() holds an onEnter not yet called
  listening,      \* checkScroll is a listener of the window's scroll event
  rect,           \* element.getBoundingClientRect(), top and bottom
  scrolls,        \* scroll events dispatched so far
  firedAt         \* the start() calls of checkScroll and onEnter: the rect
                  \* each found and the scroll event it belongs to (0: none)

tvars == <<engine, ctor, scrollTrigger, plugin, pluginArmed, listening, rect,
           scrolls, firedAt>>

\* window.innerHeight; positions are in hundredths of it.
Window == [innerHeight |-> 100]

\* The element, a fifth of the window high, with its top at p.
RectAt(p) == [top |-> p, bottom |-> p + 20]

\* Where scrolling can put the element's top: below the threshold, on it,
\* above it, and out of the window at the upper end.
Positions == {90, 80, 75, 0 - 30}

VisibleAnywhere(r) == r.bottom >= 0

\* checkScroll: rect.top <= windowHeight * 0.8 && rect.bottom >= 0.
Visible(r) == 10 * r.top <= 8 * Window.innerHeight /\ r.bottom >= 0

\* options.scrollTrigger: null (the default), {} and {start: "top 70%"}.
NoScrollTrigger == [set |-> FALSE, start |-> 0]

ScrollOptions ==
  {NoScrollTrigger, [set |-> TRUE, start |-> 80], [set |-> TRUE, start |-> 70]}

\* ScrollTrigger calls onEnter when the element's top is at or above the
\* configured start ("top 80%" unless options.scrollTrigger overrides it).
EnterDue(sc, r) == 100 * r.top <= sc.start * Window.innerHeight

\* What firedAt records of a start() the trigger made.
Firing(r, n) == [top |-> r.top, bottom |-> r.bottom, scroll |-> n]

\* No scrollTrigger option, and a page that is never scrolled.
TNone(e) ==
  /\ engine = e
  /\ ctor = "new"
  /\ scrollTrigger = NoScrollTrigger
  /\ plugin = FALSE
  /\ pluginArmed = FALSE
  /\ listening = FALSE
  /\ rect = RectAt(90)
  /\ scrolls = 0
  /\ firedAt = <<>>

\* ------------------------------------------------------- the instance

\* The instance, its drivers and its hook log as one record.
Cur ==
  [value |-> value, loops |-> loops, loopCount |-> loopCount,
   increment |-> increment, interval |-> interval, text |-> text,
   timers |-> timers, nextTimerId |-> nextTimerId, tweens |-> tweens,
   frames |-> frames, updates |-> updates, completes |-> completes,
   lastHook |-> lastHook, updateArg |-> updateArg,
   completeArg |-> completeArg, completeValue |-> completeValue,
   startCount |-> startCount]

\* The instance's fields and drivers are those of s.
Apply0(s) ==
  /\ value = s.value
  /\ loops = s.loops
  /\ loopCount = s.loopCount
  /\ increment = s.increment
  /\ interval = s.interval
  /\ text = s.text
  /\ timers = s.timers
  /\ nextTimerId = s.nextTimerId
  /\ tweens = s.tweens
  /\ frames = s.frames
  /\ updates = s.updates
  /\ completes = s.completes
  /\ lastHook = s.lastHook
  /\ updateArg = s.updateArg
  /\ completeArg = s.completeArg
  /\ completeValue = s.completeValue
  /\ startCount = s.startCount

\* The next state's fields and drivers are those of s.
Apply(s) ==
  /\ value' = s.value
  /\ loops' = s.loops
  /\ loopCount' = s.loopCount
  /\ increment' = s.increment
  /\ interval' = s.interval
  /\ text' = s.text
  /\ timers' = s.timers
  /\ nextTimerId' = s.nextTimerId
  /\ tweens' = s.tweens
  /\ frames' = s.frames
  /\ updates' = s.updates
  /\ completes' = s.completes
  /\ lastHook' = s.lastHook
  /\ updateArg' = s.updateArg
  /\ completeArg' = s.completeArg
  /\ completeValue' = s.completeValue
  /\ startCount' = s.startCount

\* An animation driver of the instance is active: a repeating timer whose
\* callback is update, or a tween of the backend.
Drivers(s) == Cardinality(s.timers) + s.tweens

\* What an operation leaves in `pre`.
Snapshot(s) ==
  [value |-> s.value, loopCount |-> s.loopCount, text |-> s.text,
   interval |-> s.interval, drivers |-> Drivers(s),
   updates |-> s.updates, completes |-> s.completes]

\* clearInterval(h): the timer h names, if any, is no longer active.
ClearInterval(ts, h) == IF h.kind = "id" THEN ts \ {h.id} ELSE ts

\* render(): element.textContent = formatter(this.value, options).
Render(s) == [s EXCEPT !.text = ToFixed(s.value, s.loops)]

\* options.onUpdate.call(element, v)
OnUpdate(s, v) ==
  [s EXCEPT !.updates = @ + 1, !.lastHook = "update", !.updateArg = v]

\* options.onComplete.call(element, v)
OnComplete(s, v) ==
  [s EXCEPT !.completes = @ + 1, !.lastHook = "complete",
            !.completeArg = v, !.completeValue = s.value]

\* init()
InitFields(s, o) ==
  [s EXCEPT !.value = Num(o.from, LoopsOf(o)),
            !.loops = LoopsOf(o),
            !.loopCount = 0,
            !.increment = IncrementOf(o, LoopsOf(o))]

\* A variant of StopFields that also rewinds the elapsed ticks.
StopKeepsTimer(s, g) ==
  [s EXCEPT !.interval = IF Truthy(s.interval) THEN Null ELSE @,
            !.tweens = IF g THEN 0 ELSE @]

StopResetsCount(s, g) ==
  [s EXCEPT !.timers = IF Truthy(s.interval)
                         THEN ClearInterval(@, s.interval) ELSE @,
            !.interval = IF Truthy(s.interval) THEN Null ELSE @,
            !.loopCount = 0,
            !.tweens = IF g THEN 0 ELSE @]

\* stop(): clear and forget the timer this.interval names; with the backend
\* present, gsap.killTweensOf(this).
StopFields(s, g) ==
  [s EXCEPT !.timers = IF Truthy(s.interval)
                         THEN ClearInterval(@, s.interval) ELSE @,
            !.interval = IF Truthy(s.interval) THEN Null ELSE @,
            !.tweens = IF g THEN 0 ELSE @]

\* animateWithGSAP() with the backend present: stop(), this.value = from,
\* gsap.to(this, ...).
AnimateWithGSAP(s, o) ==
  LET t == StopFields(s, TRUE)
  IN  [t EXCEPT !.value = Num(o.from, t.loops),
                !.tweens = @ + 1,
                !.frames = 0]

\* setInterval(this.update, refreshInterval), its id kept in this.interval.
SetInterval(s) ==
  [s EXCEPT !.timers = @ \cup {s.nextTimerId},
            !.interval = Handle(s.nextTimerId),
            !.nextTimerId = @ + 1]

\* A run begins: the hook log of the previous run is dropped.
NewRun(s) ==
  [s EXCEPT !.updates = 0, !.completes = 0, !.lastHook = "none",
            !.updateArg = 0, !.completeArg = 0, !.completeValue = 0,
            !.startCount = s.loopCount]

\* A variant of StartFields that calls init() first.
StartResets(s, o, g) ==
  LET t == Render(StopFields(InitFields(s, o), g))
  IN  NewRun(IF g THEN AnimateWithGSAP(t, o) ELSE SetInterval(t))

\* start(): stop(), render(), then the backend's tween or a repeating timer.
StartFields(s, o, g) ==
  LET t == Render(StopFields(s, g))
  IN  NewRun(IF g THEN AnimateWithGSAP(t, o) ELSE SetInterval(t))

\* A variant of RestartFields that leaves init() out.
RestartNoInit(s, o, g) == StartFields(StopFields(s, g), o, g)

\* restart(): stop(), init(), start().
RestartFields(s, o, g) == StartFields(InitFields(StopFields(s, g), o), o, g)

\* toggle(): the method it calls.
ToggleBranch(s) == IF Truthy(s.interval) THEN "stop" ELSE "start"

\* toggle()
ToggleFields(s, o, g) ==
  IF ToggleBranch(s) = "stop" THEN StopFields(s, g) ELSE StartFields(s, o, g)

\* update(): if (this.loopCount >= this.loops)
UpdateDone(s) == s.loopCount >= s.loops

\* A variant of Finish that leaves this.value as the ticks accumulated it.
FinishNoForce(s, o) ==
  LET t == [s EXCEPT !.timers = ClearInterval(@, s.interval)]
  IN  OnComplete(Render(t), t.value)

\* A variant of Finish that does not invoke the completion hook.
FinishSilent(s, o) ==
  Render([s EXCEPT !.timers = ClearInterval(@, s.interval),
                   !.value = Num(o.to, s.loops)])

\* A variant of Finish that leaves the timer running.
FinishNoClear(s, o) ==
  LET t == [s EXCEPT !.value = Num(o.to, s.loops)]
  IN  OnComplete(Render(t), t.value)

\* update(), the completion branch: clearInterval(this.interval),
\* this.value = to, render(), onComplete(this.value).
Finish(s, o) ==
  LET t == [s EXCEPT !.timers = ClearInterval(@, s.interval),
                     !.value = Num(o.to, s.loops)]
  IN  OnComplete(Render(t), t.value)

\* update(): one tick of the repeating timer.
UpdateFields(s, o) ==
  LET a == [s EXCEPT !.value = Add(@, s.increment), !.loopCount = @ + 1]
      b == OnUpdate(Render(a), a.value)
  IN  IF UpdateDone(b) THEN Finish(b, o) ELSE b

\* update() with an options.onUpdate that calls stop() on the instance: the
\* hook returns into update(), which goes on to its completion test.
UpdateStopping(s, o, g) ==
  LET a == [s EXCEPT !.value = Add(@, s.increment), !.loopCount = @ + 1]
      b == StopFields(OnUpdate(Render(a), a.value), g)
  IN  IF UpdateDone(b) THEN Finish(b, o) ELSE b

\* The values a tween moving this.value toward `to` can render: the points
\* from + k * (to - from) / loops that lie between the value and `to`.
TweenValues(s, o) ==
  { v \in { Num(o.from, s.loops) + k * (o.to - o.from) :
             k \in 0..Den(s.loops) } :
      \/ s.value <= v /\ v <= Num(o.to, s.loops)
      \/ Num(o.to, s.loops) <= v /\ v <= s.value }

\* The tween's onUpdate: render(), options.onUpdate(this.value).
TweenUpdate(s, v) ==
  LET a == [s EXCEPT !.value = v, !.frames = @ + 1]
  IN  OnUpdate(Render(a), a.value)

\* The tween's last frame: the value reaches `to`, onUpdate, then the tween's
\* onComplete: options.onComplete(options.to).
TweenFinish(s, o) ==
  LET a == TweenUpdate(s, Num(o.to, s.loops))
      b == [a EXCEPT !.tweens = @ - 1]
  IN  OnComplete(b, Num(o.to, b.loops))

\* ------------------------------------------------------------ actions

OpLog(name, by, br) ==
  /\ lastOp' = name
  /\ prevOp' = lastOp
  /\ startedBy' = by
  /\ branch' = br
  /\ pre' = Snapshot(Cur)
  /\ UNCHANGED <<options, gsap>>

Op(name, by, br) ==
  /\ OpLog(name, by, br)
  /\ UNCHANGED vvars
  /\ UNCHANGED tvars

\* Whether start() can still be given a timer id.
CanArm == gsap \/ nextTimerId <= MaxTimerId

\* The state after construction: init() has run, nothing is armed.
NewCounter(o) ==
  InitFields([value |-> 0, loops |-> 0, loopCount |-> 0, increment |-> 0,
              interval |-> Undefined, text |-> 0, timers |-> {},
              nextTimerId |-> 1, tweens |-> 0, frames |-> 0, updates |-> 0,
              completes |-> 0, lastHook |-> "none", updateArg |-> 0,
              completeArg |-> 0, completeValue |-> 0, startCount |-> 0], o)

\* constructor: this.options.scrollTrigger && typeof gsap !== 'undefined'.
SetsUpTrigger(sc, g) == sc.set /\ g

\* setupScrollTrigger() falls back to setupScrollListener().
CFallback(sc, g, plug) == SetsUpTrigger(sc, g) /\ ~plug

\* The instance after new ModernCounter(element, o) (c = "new") or after
\* initCounter(element, o), which constructs it and calls start(): init(),
\* then, with a scrollTrigger option and gsap, either ScrollTrigger.create()
\* or the scroll listener and its first checkScroll(), which calls start()
\* when the element at r is visible.
CNewWith(o, g, sc, plug, r, c) ==
  LET s0 == NewCounter(o)
      fires == CFallback(sc, g, plug) /\ Visible(r)
      s1 == IF fires THEN StartFields(s0, o, g) ELSE s0
      helper == c = "initCounter"
      s2 == IF helper THEN StartFields(s1, o, g) ELSE s1
  IN  /\ options = o
      /\ gsap = g
      /\ Apply0(s2)
      /\ startedBy =
           IF helper THEN "initCounter" ELSE IF fires THEN "trigger" ELSE "none"
      /\ lastOp = IF helper \/ fires THEN "start" ELSE "new"
      /\ prevOp = IF helper /\ fires THEN "start" ELSE "new"
      /\ branch = "none"
      /\ pre = Snapshot(IF helper THEN s1 ELSE s0)

\* The trigger that construction leaves.
CTrigger(g, sc, plug, r, c) ==
  LET fires == CFallback(sc, g, plug) /\ Visible(r)
  IN  /\ engine = "counter"
      /\ ctor = c
      /\ scrollTrigger = sc
      /\ plugin = plug
      /\ pluginArmed = (SetsUpTrigger(sc, g) /\ plug)
      /\ listening = (CFallback(sc, g, plug) /\ ~fires)
      /\ rect = r
      /\ scrolls = 0
      /\ firedAt = IF fires THEN <<Firing(r, 0)>> ELSE <<>>

\* new ModernCounter(element, o) without a scrollTrigger option.
CInitWith(o, g) == CNewWith(o, g, NoScrollTrigger, FALSE, RectAt(90), "new")

\* A ModernCounter has been constructed from one of the configurations.
CInit == \E o \in Configs, g \in BOOLEAN : CInitWith(o, g)

Start ==
  /\ CanArm
  /\ Apply(StartFields(Cur, options, gsap))
  /\ Op("start", "start", "none")

Stop ==
  /\ Apply(StopFields(Cur, gsap))
  /\ Op("stop", startedBy, "none")

Restart ==
  /\ CanArm
  /\ Apply(RestartFields(Cur, options, gsap))
  /\ Op("restart", "restart", "none")

Toggle ==
  /\ ToggleBranch(Cur) = "start" => CanArm
  /\ Apply(ToggleFields(Cur, options, gsap))
  /\ Op("toggle",
        IF ToggleBranch(Cur) = "start" THEN "toggle" ELSE startedBy,
        ToggleBranch(Cur))

\* An active repeating timer fires: the browser calls update.
Tick ==
  /\ timers # {}
  /\ Apply(UpdateFields(Cur, options))
  /\ Op("tick", startedBy, "none")

\* A tick whose update hook stops the counter.
TickStopping ==
  /\ timers # {}
  /\ Apply(UpdateStopping(Cur, options, gsap))
  /\ Op("tick", startedBy, "hookStop")

\* The backend renders a frame of the tween.
TweenFrame ==
  /\ tweens > 0
  /\ frames < MaxFrames
  /\ \E v \in TweenValues(Cur, options) : Apply(TweenUpdate(Cur, v))
  /\ Op("frame", startedBy, "none")

\* The backend renders the tween's last frame and completes it.
TweenComplete ==
  /\ tweens > 0
  /\ Apply(TweenFinish(Cur, options))
  /\ Op("tweenEnd", startedBy, "none")

CNext ==
  \/ Start
  \/ Stop
  \/ Restart
  \/ Toggle
  \/ Tick
  \/ TweenFrame
  \/ TweenComplete

\* ------------------------------------------------ the digit-roll engine

\* options.to of a VerticalCounter, character by character.
Targets ==
  { <<"4", "5", "6", "2">>, <<"1", "0", "5">>, <<"7">>, <<"0">>, <<"3", "8">> }

\* parseInt(c, 10) || 0 of one character: a digit's value, and 0 for a
\* character parseInt makes NaN of.
DigitValue(c) ==
  CASE c = "1" -> 1 [] c = "2" -> 2 [] c = "3" -> 3 [] c = "4" -> 4
    [] c = "5" -> 5 [] c = "6" -> 6 [] c = "7" -> 7 [] c = "8" -> 8
    [] c = "9" -> 9 [] OTHER -> 0

VCur ==
  [transform |-> transform, transition |-> transition, delay |-> delay,
   rolling |-> rolling, listeners |-> listeners,
   completeCount |-> completeCount, vRuns |-> vRuns, priming |-> priming,
   vCompleted |-> vCompleted, vSince |-> vSince]

VApply(s) ==
  /\ transform' = s.transform
  /\ transition' = s.transition
  /\ delay' = s.delay
  /\ vSince' = s.vSince
  /\ rolling' = s.rolling
  /\ listeners' = s.listeners
  /\ completeCount' = s.completeCount
  /\ vRuns' = s.vRuns
  /\ priming' = s.priming
  /\ vCompleted' = s.vCompleted

\* buildCounter(): one entry per character of options.to.toString(), in
\* order, its value parseInt(c, 10) || 0.
BuildCounterReversed(t) == [i \in 1..Len(t) |-> DigitValue(t[Len(t) + 1 - i])]

BuildCounter(t) == [i \in 1..Len(t) |-> DigitValue(t[i])]

Columns == 1..Len(digitElements)

\* start(): a fresh completeCount; per strip, in index order, transition
\* none and translateY(0) with a reflow (a running transition is cancelled
\* and ends without transitionend), the staggered transition, a
\* transitionend listener of this call, and a 50 ms timeout.
VStartFields(s, d) ==
  LET r == s.vRuns + 1
      n == Len(d)
  IN  [s EXCEPT !.vRuns = r,
                !.completeCount = [q \in 1..r |-> IF q = r THEN 0 ELSE @[q]],
                !.transform = [i \in 1..n |-> 0],
                !.rolling = [i \in 1..n |-> FALSE],
                !.transition = [i \in 1..n |-> "transform"],
                !.delay = [i \in 1..n |-> (i - 1) * StaggerMs],
                !.vSince = 0,
                !.listeners = [i \in 1..n |-> @[i] \cup {r}],
                !.priming = @ \o [i \in 1..n |-> <<r, i>>]]

VResetCompletes(s, d) ==
  [s EXCEPT !.transform = [i \in 1..Len(d) |-> 0],
            !.rolling = [i \in 1..Len(d) |-> FALSE],
            !.transition = [i \in 1..Len(d) |-> "none"],
            !.delay = [i \in 1..Len(d) |-> 0],
            !.vCompleted = @ + 1]

\* reset(): per strip, transition none and translateY(0), with a reflow.
VResetFields(s, d) ==
  [s EXCEPT !.transform = [i \in 1..Len(d) |-> 0],
            !.rolling = [i \in 1..Len(d) |-> FALSE],
            !.transition = [i \in 1..Len(d) |-> "none"],
            !.delay = [i \in 1..Len(d) |-> 0]]

\* The 50 ms timeout of start(): strip.style.transform = translateY(-value
\* em).  The browser starts a transition when the strip has one set and the
\* offset changes; an unchanged offset starts none.
PrimeFields(s, d, i) ==
  LET moves == s.transform[i] # 0 - d[i]
  IN  [s EXCEPT !.priming = Tail(@),
                !.transform[i] = 0 - d[i],
                !.rolling[i] = IF moves /\ s.transition[i] = "transform"
                                 THEN TRUE ELSE @]

\* checkCompletion() of the calls in rs: completeCount++ in each, and
\* onComplete for each whose count has reached the number of digits.
CheckCompletion(s, d, rs) ==
  [s EXCEPT !.completeCount =
              [q \in DOMAIN @ |-> IF q \in rs THEN @[q] + 1 ELSE @[q]],
            !.vCompleted =
              @ + Cardinality({q \in rs : s.completeCount[q] + 1 >= Len(d)}),
            !.vSince =
              @ + Cardinality({q \in rs : s.completeCount[q] + 1 >= Len(d)})]

\* transitionend on strip i: every handler registered on the strip removes
\* itself and calls its checkCompletion.
TransitionEndFields(s, d, i) ==
  CheckCompletion([s EXCEPT !.rolling[i] = FALSE, !.listeners[i] = {}],
                  d, s.listeners[i])

\* What an operation leaves in vPre.
VSnapshot(s) == [vCompleted |-> s.vCompleted, transform |-> s.transform]

VLog(name, col) ==
  /\ vLastOp' = name
  /\ vCol' = col
  /\ vPre' = VSnapshot(VCur)
  /\ UNCHANGED <<vTo, digitElements, vBuilt, vErrors>>

VOp(name, col) ==
  /\ VLog(name, col)
  /\ UNCHANGED cvars
  /\ UNCHANGED tvars

\* A call that reads this.digitElements of an instance whose constructor
\* returned before buildCounter(): a TypeError, and nothing else happens.
VThrow ==
  /\ vFault' = TRUE
  /\ UNCHANGED <<transform, transition, delay, rolling, listeners,
                 completeCount, vRuns, priming, vCompleted, vSince>>

MissingToNever(t) == FALSE

\* constructor: if (!this.options.to), for options.to a string.
MissingTo(t) == t = <<>>

ArmsAutoStartAlways(t, sc) == ~MissingTo(t)

\* constructor: with a target and no scrollTrigger option, setTimeout(start).
ArmsAutoStart(t, sc) == ~MissingTo(t) /\ ~sc.set

\* constructor: with a target and a scrollTrigger option, a trigger.
ArmsTrigger(t, sc) == ~MissingTo(t) /\ sc.set

\* The fields of an instance whose columns d were just built.
VNew(d) ==
  [transform |-> [i \in 1..Len(d) |-> 0],
   transition |-> [i \in 1..Len(d) |-> "none"],
   delay |-> [i \in 1..Len(d) |-> 0],
   rolling |-> [i \in 1..Len(d) |-> FALSE],
   listeners |-> [i \in 1..Len(d) |-> {}],
   completeCount |-> <<>>, vRuns |-> 0, priming |-> <<>>,
   vCompleted |-> 0, vSince |-> 0]

\* The instance's fields are those of s.
VApply0(s) ==
  /\ transform = s.transform
  /\ transition = s.transition
  /\ delay = s.delay
  /\ rolling = s.rolling
  /\ listeners = s.listeners
  /\ completeCount = s.completeCount
  /\ vRuns = s.vRuns
  /\ priming = s.priming
  /\ vCompleted = s.vCompleted
  /\ vSince = s.vSince

\* The instance after new VerticalCounter(element, {to: t, scrollTrigger:
\* sc}): without a target, console.error and return; otherwise the columns
\* are built and either ScrollTrigger.create(), or the scroll listener with
\* its first checkScroll(), or the 100 ms timeout of the automatic start.
VNewWith(t, sc, plug, r) ==
  LET d == IF MissingTo(t) THEN <<>> ELSE BuildCounter(t)
      fires == ArmsTrigger(t, sc) /\ ~plug /\ Visible(r)
      s0 == VNew(d)
      s1 == IF fires THEN VStartFields(s0, d) ELSE s0
  IN  /\ vTo = t
      /\ vBuilt = ~MissingTo(t)
      /\ vErrors = IF MissingTo(t) THEN 1 ELSE 0
      /\ digitElements = d
      /\ VApply0(s1)
      /\ autoStart = ArmsAutoStart(t, sc)
      /\ vFault = FALSE
      /\ vResetCalled = FALSE
      /\ vLastOp = IF fires THEN "start" ELSE "new"
      /\ vCol = 0
      /\ vPre = VSnapshot(s0)

\* The trigger that construction leaves.
VTrigger(t, sc, plug, r) ==
  LET fires == ArmsTrigger(t, sc) /\ ~plug /\ Visible(r)
  IN  /\ engine = "vertical"
      /\ ctor = "new"
      /\ scrollTrigger = sc
      /\ plugin = plug
      /\ pluginArmed = (ArmsTrigger(t, sc) /\ plug)
      /\ listening = (ArmsTrigger(t, sc) /\ ~plug /\ ~fires)
      /\ rect = r
      /\ scrolls = 0
      /\ firedAt = IF fires THEN <<Firing(r, 0)>> ELSE <<>>

\* new VerticalCounter(element, {to: t}) without a scrollTrigger option.
VInitWith(t) == VNewWith(t, NoScrollTrigger, FALSE, RectAt(90))

VInit == \E t \in Targets \cup {<<>>} : VInitWith(t)

\* No VerticalCounter has been constructed.
VNone ==
  /\ vTo = <<>>
  /\ vBuilt = FALSE
  /\ vErrors = 0
  /\ vFault = FALSE
  /\ vSince = 0
  /\ vCol = 0
  /\ vPre = [vCompleted |-> 0, transform |-> <<>>]
  /\ delay = <<>>
  /\ digitElements = <<>>
  /\ transform = <<>>
  /\ transition = <<>>
  /\ rolling = <<>>
  /\ listeners = <<>>
  /\ completeCount = <<>>
  /\ vRuns = 0
  /\ priming = <<>>
  /\ autoStart = FALSE
  /\ vCompleted = 0
  /\ vResetCalled = FALSE
  /\ vLastOp = "none"

\* start(), called by the page.
VerticalStart ==
  /\ IF vBuilt
       THEN /\ vRuns < MaxVStarts
            /\ VApply(VStartFields(VCur, digitElements))
            /\ UNCHANGED vFault
       ELSE VThrow
  /\ VOp("start", 0)
  /\ UNCHANGED <<autoStart, vResetCalled>>

\* The constructor's setTimeout(() => this.start(), 100) fires.
AutoStart ==
  /\ autoStart
  /\ vRuns < MaxVStarts
  /\ autoStart' = FALSE
  /\ VApply(VStartFields(VCur, digitElements))
  /\ VOp("autoStart", 0)
  /\ UNCHANGED <<vResetCalled, vFault>>

\* reset(), called by the page.
VerticalReset ==
  /\ IF vBuilt
       THEN /\ VApply(VResetFields(VCur, digitElements))
            /\ UNCHANGED vFault
       ELSE VThrow
  /\ vResetCalled' = TRUE
  /\ VOp("reset", 0)
  /\ UNCHANGED autoStart

\* The oldest pending 50 ms timeout of a start() fires.
PrimingTimeout ==
  /\ priming # <<>>
  /\ VApply(PrimeFields(VCur, digitElements, Head(priming)[2]))
  /\ VOp("timeout", Head(priming)[2])
  /\ UNCHANGED <<autoStart, vResetCalled, vFault>>

\* The transition running on a strip ends: the browser fires transitionend.
TransitionEnd ==
  /\ \E i \in Columns :
       /\ rolling[i]
       /\ VApply(TransitionEndFields(VCur, digitElements, i))
       /\ VOp("transitionend", i)
  /\ UNCHANGED <<autoStart, vResetCalled, vFault>>

VNext ==
  \/ VerticalStart
  \/ AutoStart
  \/ VerticalReset
  \/ PrimingTimeout
  \/ TransitionEnd

\* ------------------------------------------------------ specifications

vars == <<cvars, vvars, tvars>>

\* DEFAULTS of ModernCounter.
Defaults == [from |-> 0, to |-> 0, speed |-> 1000, refreshInterval |-> 100]

\* The counter engine: one ModernCounter and its drivers.
Init == CInit /\ VNone /\ TNone("counter")

Next == CNext

Spec == Init /\ [][Next]_vars

\* The counter engine on its own timer, with a timer that keeps firing:
\* instances of the shorter configurations on a page without gsap, and
\* while a repeating timer is active its callback is eventually called.
InitL ==
  /\ \E o \in {c \in Configs : LoopsOf(c) < 5} : CInitWith(o, FALSE)
  /\ VNone
  /\ TNone("counter")

NextL ==
  \/ Start
  \/ Stop
  \/ Restart
  \/ Toggle
  \/ Tick

\* The timer calls update: the steps that log a tick and count it.  Among
\* the steps of NextL these are the steps of Tick, and like Tick they are
\* possible exactly while a repeating timer is active.
TimerFires ==
  /\ timers # {}
  /\ lastOp' = "tick"
  /\ loopCount' = loopCount + 1

SpecL == InitL /\ [][NextL]_vars /\ WF_<<lastOp, loopCount>>(TimerFires)

\* The counter engine on its own timer with update hooks that may call
\* stop(): at every tick the hook either does or does not.
InitH ==
  /\ \E o \in Configs : CInitWith(o, FALSE)
  /\ VNone
  /\ TNone("counter")

NextH ==
  \/ Start
  \/ Stop
  \/ Restart
  \/ Toggle
  \/ Tick
  \/ TickStopping

SpecH == InitH /\ [][NextH]_vars

\* The digit-roll engine: one VerticalCounter and the browser's timeouts and
\* transitions.
InitV == VInit /\ CInitWith(Defaults, FALSE) /\ TNone("vertical")

NextV == VNext

SpecV == InitV /\ [][NextV]_vars

\* The data-speed attribute, absent or with the integer parseInt reads from
\* it, and the speed of the options passed to the constructor, absent or set.
DataSpeeds == {<<>>, <<0>>, <<250>>}

OptionSpeeds == {<<>>, <<0>>, <<50>>}

\* getDataOptions(): parseInt(getAttribute('data-speed'), 10) || 1000.
ParsedSpeed(a) == IF a[1] = 0 THEN 1000 ELSE a[1]

\* constructor: {...DEFAULTS, ...getDataOptions(), ...options}.
MergedSpeed(a, e) ==
  IF e # <<>> THEN e[1] ELSE IF a # <<>> THEN ParsedSpeed(a) ELSE Defaults.speed

\* The merged options of instances made with these speeds.
MergedConfigs ==
  { [from |-> e[1], to |-> e[2], speed |-> MergedSpeed(a, sp),
     refreshInterval |-> Defaults.refreshInterval] :
      e \in {<<0, 10>>, <<10, 3>>, <<5, 5>>},
      a \in DataSpeeds, sp \in OptionSpeeds }

\* The counter engine over the configurations at the edge: a speed of 0 and
\* speeds below the refresh interval.
InitZ ==
  /\ \E o \in MergedConfigs, g \in BOOLEAN : CInitWith(o, g)
  /\ VNone
  /\ TNone("counter")

NextZ == CNext

SpecZ == InitZ /\ [][NextZ]_vars

\* start(), called by checkScroll or by onEnter.
TriggerStart ==
  IF engine = "counter"
    THEN /\ Apply(StartFields(Cur, options, gsap))
         /\ OpLog("start", "trigger", "none")
         /\ UNCHANGED vvars
    ELSE /\ VApply(VStartFields(VCur, digitElements))
         /\ VLog("start", 0)
         /\ UNCHANGED <<autoStart, vResetCalled, vFault>>
         /\ UNCHANGED cvars

\* A scroll event with the element at some position: checkScroll, while it
\* is a listener, calls start() and removes itself if the element is visible.
Scroll ==
  /\ scrolls < MaxScrolls
  /\ \E p \in Positions :
       LET r == RectAt(p)
           fires == listening /\ Visible(r)
       IN  /\ rect' = r
           /\ scrolls' = scrolls + 1
           /\ listening' = (listening /\ ~fires)
           /\ firedAt' =
                IF fires THEN Append(firedAt, Firing(r, scrolls + 1))
                         ELSE firedAt
           /\ IF fires THEN TriggerStart ELSE UNCHANGED <<cvars, vvars>>
  /\ UNCHANGED <<engine, ctor, scrollTrigger, plugin, pluginArmed>>

\* ScrollTrigger calls the onEnter it was given: () => this.start().
OnEnter ==
  /\ pluginArmed
  /\ EnterDue(scrollTrigger, rect)
  /\ pluginArmed' = FALSE
  /\ firedAt' = Append(firedAt, Firing(rect, scrolls))
  /\ TriggerStart
  /\ UNCHANGED <<engine, ctor, scrollTrigger, plugin, listening, rect,
                 scrolls>>

\* The configurations of the counters a trigger activates: the short runs.
TriggerConfigs == {o \in Configs : LoopsOf(o) < 4}

\* The activation trigger: an instance of either class, made with any
\* scrollTrigger option on a page with or without gsap and ScrollTrigger,
\* the page's scroll events, and the drivers of the instance. Nobody calls
\* the instance's methods but the trigger, the timers and initCounter.
InitT ==
  \/ /\ \E o \in TriggerConfigs, g \in BOOLEAN, sc \in ScrollOptions,
           p \in Positions, c \in {"new", "initCounter"} :
           \E plug \in IF g THEN BOOLEAN ELSE {FALSE} :
             /\ CNewWith(o, g, sc, plug, RectAt(p), c)
             /\ CTrigger(g, sc, plug, RectAt(p), c)
      /\ VNone
  \/ /\ \E t \in Targets \cup {<<>>}, plug \in BOOLEAN, sc \in ScrollOptions,
           p \in Positions :
           /\ VNewWith(t, sc, plug, RectAt(p))
           /\ VTrigger(t, sc, plug, RectAt(p))
      /\ CInitWith(Defaults, FALSE)

NextT ==
  \/ Scroll
  \/ OnEnter
  \/ Tick
  \/ TweenFrame
  \/ TweenComplete
  \/ AutoStart
  \/ PrimingTimeout
  \/ TransitionEnd

SpecT == InitT /\ [][NextT]_vars

\* ------------------------------------------------- counter engine claims

\* The scenario of the specification: from 0 to 1000 in 2000 ms, a tick
\* every 100 ms.
Scenario == [from |-> 0, to |-> 1000, speed |-> 2000, refreshInterval |-> 100]

From == Num(options.from, loops)

To == Num(options.to, loops)

\* C1: on the built-in tick path, a run that reaches completion has invoked
\* the completion hook exactly once, and no update hook of that run follows
\* it: the hook invoked last in the run is the completion hook, and the
\* timer that drove the run is no longer active.
C1_CompleteOnceAfterLastUpdate ==
  (~gsap /\ completes >= 1) =>
    /\ completes = 1
    /\ updates >= 1
    /\ lastHook = "complete"
    /\ timers = {}

C1_Witness ==
  /\ ~gsap
  /\ loops > 1
  /\ startCount = 0
  /\ updates = loops
  /\ completes = 1
  /\ lastOp = "stop"

\* C2: whenever the completion hook is invoked, this.value is exactly `to`
\* and the hook's argument is `to`, whatever the additions of the ticks had
\* accumulated.
C2_CompletesAtTarget ==
  completes >= 1 => (completeValue = To /\ completeArg = To)

\* A completion whose last tick had accumulated a value other than `to`.
C2_Witness ==
  /\ ~gsap
  /\ completes = 1
  /\ lastHook = "complete"
  /\ updateArg # To
  /\ completeValue = To

\* C3: totalTicks is ceil(speed / refreshInterval), and a run of the tick
\* path that start() did not resume from a paused state (those are C5's)
\* and that reaches completion has invoked the update hook totalTicks
\* times, also when start() was called after an earlier run had completed.
C3_UpdatesEqualTotalTicks ==
  /\ loops = Ceil(options.speed, options.refreshInterval)
  /\ (~gsap /\ completes >= 1 /\ (startCount = 0 \/ startCount >= loops)) =>
       updates = loops

\* C4 as claimed: right after a start() that follows a stop(), the value is
\* `from` and no tick has elapsed.
C4_StopStartRestartsFromFrom ==
  (lastOp = "start" /\ prevOp = "stop") => (value = From /\ loopCount = 0)

\* C4, amended: right after a start() that follows a stop(), the value is
\* `from` when the run is delegated to the tweening backend; on the built-in
\* tick path the value and the elapsed ticks are what they were when start()
\* was called, that is, at the stop().  start() never changes loopCount.
C4_StopStartAmended ==
  (lastOp = "start" /\ prevOp = "stop") =>
    /\ loopCount = pre.loopCount
    /\ startCount = loopCount
    /\ gsap => value = From
    /\ ~gsap => value = pre.value

C4_Witness ==
  /\ lastOp = "start"
  /\ prevOp = "stop"
  /\ ~gsap
  /\ 0 < loopCount /\ loopCount < loops
  /\ value # From
  /\ value = pre.value

\* C5: a start() after a stop() at k elapsed ticks, 0 < k < totalTicks,
\* leaves the value and the elapsed ticks unchanged and arms one driver;
\* the run it starts continues from the paused value (the update hook gets
\* from + (k + j) * increment on its tick j) and completes on its tick
\* totalTicks - k, not earlier.
C5_StartResumes ==
  /\ (lastOp = "start" /\ prevOp = "stop"
        /\ 0 < pre.loopCount /\ pre.loopCount < loops) =>
       /\ value = pre.value
       /\ loopCount = pre.loopCount
       /\ Drivers(Cur) = 1
  /\ (0 < startCount /\ startCount < loops) =>
       /\ updates <= loops - startCount
       /\ completes >= 1 <=> updates = loops - startCount
       /\ updates >= 1 =>
            updateArg = From + (startCount + updates) * (options.to - options.from)

C5_Witness ==
  /\ startedBy = "start"
  /\ 0 < startCount /\ startCount < loops
  /\ updates = loops - startCount
  /\ completes = 1
  /\ options.from # options.to

\* C6: toggle() calls stop() if an animation is running (a driver is
\* active) and start() otherwise.
C6_ToggleStopsIffRunning ==
  lastOp = "toggle" => (branch = "stop" <=> pre.drivers > 0)

\* C7 as claimed: right after restart() the value is `from`, no tick has
\* elapsed and exactly one driver is active; the run restart() started, once
\* complete, has invoked the update hook totalTicks times and then the
\* completion hook once.
C7_RestartFullRun ==
  /\ lastOp = "restart" =>
       (value = From /\ loopCount = 0 /\ Drivers(Cur) = 1)
  /\ (startedBy = "restart" /\ completes >= 1) =>
       (updates = loops /\ completes = 1 /\ lastHook = "complete")

\* C7, amended: as claimed, but the update hook is invoked totalTicks times
\* only on the built-in tick path; a run delegated to the tweening backend
\* invokes it once per frame the backend renders, whatever totalTicks is.
C7_RestartAmended ==
  /\ lastOp = "restart" =>
       /\ value = From
       /\ loopCount = 0
       /\ Drivers(Cur) = 1
       /\ startCount = 0
       /\ updates = 0 /\ completes = 0
  /\ (startedBy = "restart" /\ completes >= 1) =>
       /\ completes = 1
       /\ lastHook = "complete"
       /\ ~gsap => updates = loops
       /\ gsap => (updates = frames /\ updates >= 1)

\* A restart() issued in the middle of a run, on the tick path.
C7_Witness ==
  /\ lastOp = "restart"
  /\ ~gsap
  /\ 0 < pre.loopCount /\ pre.loopCount < loops
  /\ pre.value # From
  /\ pre.drivers = 1

C9_TickValues ==
  /\ increment = options.to - options.from
  /\ (~gsap /\ startCount = 0 /\ updates >= 1) =>
       /\ updates <= loops
       /\ updateArg = From + updates * (options.to - options.from)
  /\ options = Scenario =>
       /\ loops = 20
       /\ increment = Num(50, loops)
       /\ (~gsap /\ startCount = 0 /\ updates >= 1) =>
            updateArg = Num(50 * updates, loops)

C9_Witness ==
  /\ options = Scenario
  /\ ~gsap
  /\ startCount = 0
  /\ updates = 20
  /\ updateArg = Num(1000, loops)
  /\ completes = 1

\* ----------------------------------------------- digit-roll engine claims

\* Nothing is pending: no timeout, no running transition.
VQuiescent ==
  /\ ~autoStart
  /\ priming = <<>>
  /\ \A i \in Columns : ~rolling[i]

\* C10: after a single start() and no reset(), the completion hook has been
\* invoked at most once, it has been invoked exactly when the call's
\* completeCount equals the number of columns, and once nothing is pending
\* any more it has been invoked: exactly once, whatever the digits are.
C10_CompletesOnceAfterLastColumn ==
  (vRuns = 1 /\ ~vResetCalled) =>
    /\ vCompleted <= 1
    /\ vCompleted = 1 <=> completeCount[1] = Len(digitElements)
    /\ VQuiescent => vCompleted = 1

\* C11: whatever start() calls overlap, the completion hook is invoked at most
\* once after the latest start(): the transitionend listeners an earlier
\* start() registered do not count toward completion any more.
C11_StaleObserversDoNotCount == vSince <= 1

\* C12: there is one column per character of the target, in the target's
\* order, each with a digit in 0..9 ("4562" gives 4, 5, 6, 2); a started
\* column i (counted from 0) has the transition delay i * StaggerMs, strictly
\* increasing with i; and the offset a column is moved to is its digit in
\* row heights, in the negative direction.
C12_ColumnsStaggerAndOffset ==
  /\ vBuilt =>
       /\ Len(digitElements) = Len(vTo)
       /\ \A i \in Columns : digitElements[i] \in 0..9
  /\ vTo = <<"4", "5", "6", "2">> => digitElements = <<4, 5, 6, 2>>
  /\ vTo = <<"1", "0", "5">> => digitElements = <<1, 0, 5>>
  /\ vTo = <<"3", "8">> => digitElements = <<3, 8>>
  /\ \A i \in Columns :
       transition[i] = "transform" => delay[i] = (i - 1) * StaggerMs
  /\ vLastOp \in {"start", "autoStart"} /\ vBuilt =>
       /\ \A i \in Columns : transition[i] = "transform"
       /\ \A i, j \in Columns : i < j => delay[i] < delay[j]
  /\ \A i \in Columns : transform[i] \in {0, 0 - digitElements[i]}
  /\ vLastOp = "timeout" => transform[vCol] = 0 - digitElements[vCol]

C12_Witness ==
  /\ vTo = <<"4", "5", "6", "2">>
  /\ vLastOp = "timeout"
  /\ vCol = 4
  /\ transform = <<0 - 4, 0 - 5, 0 - 6, 0 - 2>>
  /\ delay = <<0, 100, 200, 300>>

\* C13: reset() does not invoke the completion hook, whatever state it is
\* called in, and leaves the digit sequence as buildCounter() made it.
C13_ResetIsSilent ==
  /\ vLastOp = "reset" => vCompleted = vPre.vCompleted
  /\ vBuilt => digitElements = BuildCounter(vTo)

\* reset() has been called before any start(), during a run, and after a
\* completion; the last of these is the state described here, reached by a
\* reset() that follows the completion of a run.
C13_Witness ==
  /\ vLastOp = "reset"
  /\ vPre.vCompleted = 1
  /\ vPre.transform # transform

\* The instance is a ModernCounter made by new, a VerticalCounter with a
\* target.
NewCounterInstance == engine = "counter" /\ ctor = "new"

BuiltVertical == engine = "vertical" /\ vTo # <<>>

\* The element's top is at or above 80% of the window height, and its bottom
\* is not above the window.
InView(r) == 100 * r.top <= 80 * Window.innerHeight /\ r.bottom >= 0

\* The trigger has called start() since the instance was made.
Activated == firedAt # <<>>

\* The scroll listener is attached until it has called start(), it has
\* called start() once the element was in view at its attachment or at a
\* scroll event, and nothing else has started the instance.
ListenerActivates ==
  /\ listening <=> ~Activated
  /\ InView(rect) => Activated
  /\ Len(firedAt) <= 1
  /\ engine = "vertical" => vRuns = Len(firedAt)
  /\ NewCounterInstance => (lastOp = "new" <=> ~Activated)

\* C14: a VerticalCounter made without a target has logged one error, has no
\* columns, no pending automatic start, no scroll listener and no
\* ScrollTrigger, has never started an animation, and has thrown nothing.
C14_NoTargetAborts ==
  /\ engine = "vertical" /\ vTo = <<>> =>
       /\ vErrors = 1
       /\ ~vBuilt /\ digitElements = <<>>
       /\ ~autoStart /\ ~listening /\ ~pluginArmed
       /\ vRuns = 0 /\ priming = <<>> /\ ~Activated /\ vCompleted = 0
       /\ ~vFault
  /\ BuiltVertical => vErrors = 0 /\ vBuilt

C14_Witness ==
  /\ engine = "vertical"
  /\ vTo = <<>>
  /\ scrollTrigger.set
  /\ scrolls = MaxScrolls
  /\ InView(rect)

\* C15: where the scroll listener is the trigger (a scrollTrigger option and
\* no ScrollTrigger plugin), start() is called by it at most once, only with
\* the element's top at or above 80% of the window height (never at 90%), and
\* as soon as the element is in view, be it at the attachment or at a scroll
\* event (so always at 75%); the listener is attached exactly until then.
C15_ManualTrigger ==
  \/ /\ engine = "counter"
     /\ scrollTrigger.set /\ gsap /\ ~plugin
  \/ /\ BuiltVertical
     /\ scrollTrigger.set /\ ~plugin
  =>
  /\ ListenerActivates
  /\ \A k \in DOMAIN firedAt :
       /\ 100 * firedAt[k].top <= 80 * Window.innerHeight
       /\ firedAt[k].top # 90
  /\ rect.top = 75 => Activated
  /\ scrolls = 0 /\ InView(rect) => firedAt = <<Firing(rect, 0)>>

\* Out of view when made and at the first scroll event, in view at the
\* second, where start() was called, and still in view at the third.
C15_Witness ==
  /\ scrolls = 3
  /\ rect.top = 75
  /\ firedAt = <<Firing(RectAt(80), 2)>>
  /\ ~listening
  /\ engine = "vertical"

\* C16: with a scrollTrigger option and without the backend (gsap
\* with its ScrollTrigger for a ModernCounter, ScrollTrigger for a
\* VerticalCounter) the scroll listener is attached at construction and calls
\* start() once the element is in view.
C16_FallbackWithoutBackend ==
  \/ /\ engine = "counter"
     /\ scrollTrigger.set /\ ~(gsap /\ plugin)
  \/ /\ BuiltVertical
     /\ scrollTrigger.set /\ ~plugin
  => ListenerActivates

\* What C17 says of an instance made with a scrollTrigger option: it is
\* started by nothing but its trigger, whose condition held when it fired.
StartedByTriggerOnly ==
  NewCounterInstance \/ BuiltVertical =>
    (scrollTrigger.set =>
      /\ ~autoStart
      /\ (IF engine = "counter" THEN lastOp # "new" ELSE vRuns > 0) =>
           Activated
      /\ \A k \in DOMAIN firedAt :
           100 * firedAt[k].top <=
             (IF plugin THEN scrollTrigger.start ELSE 80) * Window.innerHeight)

\* What C17 says of a VerticalCounter made without a scrollTrigger option:
\* its start() is pending until it is called, once.
VerticalStartsOnceLater ==
  BuiltVertical /\ ~scrollTrigger.set =>
    /\ autoStart <=> vRuns = 0
    /\ vRuns <= 1
    /\ ~Activated

\* C17, as stated: a ModernCounter without a scrollTrigger option has been
\* started when its construction is over; a VerticalCounter without one is
\* started once, later; an instance with one is not started before its
\* trigger fires.
C17_ConstructionStarts ==
  /\ engine = "counter" /\ ~scrollTrigger.set => lastOp # "new"
  /\ VerticalStartsOnceLater
  /\ StartedByTriggerOnly

\* C17, amended: the ModernCounter constructor never calls start(): without
\* a scrollTrigger option the instance stays as constructed until its user
\* calls start(), which initCounter does for its caller, at once and
\* whatever the options. The rest is as stated.
C17_ImmediateAmended ==
  /\ NewCounterInstance /\ ~scrollTrigger.set =>
       lastOp = "new" /\ Drivers(Cur) = 0 /\ ~Activated
  /\ engine = "counter" /\ ctor = "initCounter" => lastOp # "new"
  /\ VerticalStartsOnceLater
  /\ StartedByTriggerOnly

C17_Witness ==
  /\ NewCounterInstance
  /\ ~scrollTrigger.set
  /\ scrolls = MaxScrolls
  /\ InView(rect)
  /\ lastOp = "new"

\* C18: the instance has at most one active driver, a timer or a tween; an
\* active timer is the one this.interval names; and a start() or restart()
\* that found a driver active leaves exactly one, a timer that is not the
\* one it found.
C18_OneDriver ==
  /\ Drivers(Cur) <= 1
  /\ timers \subseteq (IF Truthy(interval) THEN {interval.id} ELSE {})
  /\ lastOp \in {"start", "restart"} /\ pre.drivers = 1 =>
       /\ Drivers(Cur) = 1
       /\ ~gsap => timers = {interval.id} /\ interval # pre.interval

\* start() was called in the middle of a run of the timer.
C18_Witness ==
  /\ lastOp = "start"
  /\ ~gsap
  /\ pre.drivers = 1
  /\ pre.loopCount > 0
  /\ timers = {interval.id}

\* C19: loopCount is within 0..loops.
C19_TicksWithinTotal == 0 <= loopCount /\ loopCount <= loops

\* C20: this.loops is at least 1, and this.increment, the quotient by it, is
\* a finite number.
C20_TotalTicksPositive == loops >= 1 /\ IsFinite(increment)

\* C21: with from equal to `to`, the first tick after a start() or restart()
\* invokes the completion hook and leaves no timer, whatever this.loops is.
C21_EqualEndsCompleteOnFirstTick ==
  /\ ~gsap
  /\ options.from = options.to
  /\ lastOp = "tick"
  /\ prevOp \in {"start", "restart"}
  => completes = 1 /\ timers = {}

\* C26: without the backend, this.interval names a timer exactly when a
\* repeating timer is active.
C26_HandleIffTimerActive == ~gsap => (Truthy(interval) <=> timers # {})

\* C25: on a VerticalCounter made without a target no call has thrown, no
\* animation has started and no hook has been invoked.
C25_AbortedInstanceIsInert ==
  engine = "vertical" /\ vTo = <<>> =>
    ~vFault /\ vRuns = 0 /\ priming = <<>> /\ vCompleted = 0

\* C23: right after reset() no transitionend listener is registered on any
\* strip, and once reset() has been called the completion hook is invoked at
\* most once after a start().
C23_ResetReleasesObservers ==
  /\ vLastOp = "reset" => \A i \in Columns : listeners[i] = {}
  /\ vResetCalled => vSince <= 1

\* C24: from a reset() until the next start(), which is when reset() has
\* been called and the strips have the transition none, every strip is at
\* the offset 0.
C24_ResetHolds ==
  vResetCalled =>
    \A i \in Columns : transition[i] = "none" => transform[i] = 0

\* C22: without the backend, whenever a repeating timer is active, a later
\* state has no active timer, and it has been released by the run's
\* completion, whose hook has been invoked, unless stop() or toggle()
\* released it first.
C22_RunCompletes ==
  (~gsap /\ timers # {}) ~>
    (timers = {} /\ (completes = 1 \/ lastOp \in {"stop", "toggle"}))

\* The tick that completes an uninterrupted run of 4 ticks.
C22_Witness ==
  /\ ~gsap
  /\ lastOp = "tick"
  /\ loops = 4
  /\ updates = 4
  /\ completes = 1
  /\ timers = {}

\* C27: stop() leaves no timer, so that no tick follows it before the next
\* start(), restart() or toggle(), and it invokes no hook and leaves the
\* value alone; and when the update hook of a tick has called stop(), that
\* tick invokes no hook after it and the value stays what the tick had made
\* it when the hook was called.
C27_NothingAfterStop ==
  /\ lastOp = "stop" =>
       /\ timers = {}
       /\ updates = pre.updates /\ completes = pre.completes
       /\ value = pre.value
  /\ lastOp = "tick" /\ branch = "hookStop" =>
       /\ timers = {}
       /\ lastHook = "update" /\ completes = pre.completes
       /\ value = Add(pre.value, increment)

====
